---- MODULE Spec2Model ----
(***************************************************************************)
(* Model of the bg22_hydro integration: the BLE device wrapper             *)
(* IrrigationBLE (hydro_device.py) and the derived-state evaluator        *)
(* IrrigationCoordinator.handle_state_update (coordinator.py), with the   *)
(* config flow and the entry setup around them, and of the position        *)
(* request of the bg22 integration (SpecPosition).                         *)
(*                                                                         *)
(* Units.  Flow rates are integers in 1/100 L/min, times are integer       *)
(* seconds of time.monotonic(), and _total_volume_l is an integer in       *)
(* 1/6000 L (flow * seconds), so that  flow / 60.0 * dt  is exact.         *)
(* A published total_volume_l (round(.., 3)) is an integer in 1/1000 L.    *)
(* An Optional value is <<>> (None) or <<v>>.                              *)
(*                                                                         *)
(* Granularity.  Notification handlers and the disconnect callback are     *)
(* synchronous and are one step each.  connect() is one step.  turn_on /   *)
(* turn_off and read_all are two steps: up to the point where the GATT     *)
(* write (the first GATT read) has been issued, and its completion with    *)
(* the code that follows; callbacks may run in between.  SpecConnect       *)
(* follows connect() await by await, with the callbacks in between.        *)
(*                                                                         *)
(* Lifecycle.  async_setup_entry constructs the device, attaches the        *)
(* coordinator and only then calls connect(); the device operations are    *)
(* therefore enabled once the coordinator is attached.  A notification can *)
(* arrive only on a channel for which start_notify was called on the       *)
(* session (_safe_start_notify swallows a failing call).                   *)
(* time.monotonic() never goes back, so now - _last_flow_ts is never       *)
(* negative here and max(0.0, ..) only guards.                             *)
(***************************************************************************)
EXTENDS Integers, Sequences, FiniteSets, TLC

VARIABLES
    cli,             \* self._cli: "none" | "open" (is_connected) | "closed"
    subs,            \* channels start_notify was called for on the session
    connected,       \* self._connected
    coordinator,     \* self._coordinator is set
    pump_on,         \* self._pump_on
    flow_lpm,        \* self._flow_lpm (Optional)
    error_code,      \* self._error_code
    last_flow_ts,    \* self._last_flow_ts (Optional)
    total_volume_l,  \* self._total_volume_l
    flow_detected,   \* self._flow_detected
    pc,              \* the caller task: "idle" | "write_on" | "write_off" | "read_all"
    clock,           \* time.monotonic()
    pushed,          \* payloads handed to call_soon_threadsafe by the last step
    last,            \* the last step: [op, data, result]
    data,            \* IrrigationCoordinator.data
    no_flow_since,   \* IrrigationCoordinator._no_flow_since (Optional)
    run_start,       \* time of the first evaluation of the current no-flow run
    entries,         \* the domain's config entries, in creation order
    flows,           \* the config flow instances
    hass_data,       \* entry_id is a key of hass.data[DOMAIN]
    platforms,       \* the entry's entity platforms: "none" | "loaded" | "unloaded"
    setup_pc,        \* position of async_setup_entry / async_unload_entry
    loop_ready,      \* hass.loop: the scheduled callbacks' payloads, oldest first
    bg22             \* the BG22 position device: BG22Instance and BG22Coordinator

devVars  == <<cli, subs, connected, coordinator, pump_on, flow_lpm, error_code,
              last_flow_ts, total_volume_l, flow_detected, pc>>
cacheVars == <<pump_on, flow_lpm, error_code, last_flow_ts, total_volume_l,
               flow_detected>>
evalVars == <<data, no_flow_since, run_start>>
hostVars == <<entries, flows, hass_data, platforms, setup_pc, loop_ready,
              bg22>>
vars     == <<devVars, clock, pushed, last, evalVars, hostVars>>

----------------------------------------------------------------------------
\* Bounds of the model

MaxClock == 2

MaxEvalClock == 7

MaxVolume == 25

\* Largest time.monotonic() value and timestamp drawn for the integration
MaxIntegTime == 3

\* Largest number of config entries created
MaxEntries == 3

\* Program constants (flow rates in 1/100 L/min)

ERROR_OK == 0

ERROR_DRY_RUN == 1

ERROR_SENSOR_FAULT == 2

FLOW_THRESHOLD_LPM == 20

DRY_RUN_DELAY_SEC == 5

flow_detect_thresh == 5

----------------------------------------------------------------------------
\* Optional values

None == <<>>

Some(v) == <<v>>

OrZero(x) == IF x = None THEN 0 ELSE x[1]

Max(a, b) == IF a >= b THEN a ELSE b

RECURSIVE Pow2(_)
Pow2(n) == IF n = 0 THEN 1 ELSE 2 * Pow2(n - 1)

----------------------------------------------------------------------------
\* Payloads the transport delivers (sequences of bytes)

F32_Quarter    == <<0, 0, 128, 62>>     \* 0.25 as float32 LE
F32_NegQuarter == <<0, 0, 128, 190>>    \* -0.25 as float32 LE
U16_Thresh     == <<5, 0>>              \* 5 / 100.0 = 0.05
U8_Zero        == <<0>>                 \* 0.0

FlowPayloads == {<<>>, <<1, 2, 3>>, F32_Quarter, F32_NegQuarter, U16_Thresh, U8_Zero}

ErrorPayloads == {<<>>, <<0>>, <<3, 7>>}

PumpPayloads == {<<0>>, <<1>>}

\* A GATT read either raises or returns a payload.
ReadFail == [ok |-> FALSE, d |-> <<>>]

ReadOf(S) == {ReadFail} \cup {[ok |-> TRUE, d |-> p] : p \in S}

PumpReads == ReadOf(PumpPayloads)

FlowReads == ReadOf({F32_Quarter, U16_Thresh})

ErrorReads == ReadOf({<<3>>})

----------------------------------------------------------------------------
\* Payload codec

\* struct.unpack("<f", b)[0] for a finite float32 that is a multiple of
\* 1/100 (in 1/100 units): sign, 8-bit exponent, 23-bit fraction.
unpack_f32_le(b) ==
    LET sign == b[4] \div 128
        e    == (b[4] % 128) * 2 + (b[3] \div 128)
        m    == (b[3] % 128) * 65536 + b[2] * 256 + b[1]
        mag  == IF e = 0 THEN 0
                ELSE IF e >= 150 THEN (8388608 + m) * 100 * Pow2(e - 150)
                ELSE ((8388608 + m) * 100) \div Pow2(150 - e)
    IN  IF sign = 1 THEN 0 - mag ELSE mag

unpack_bool(b) == b[1] # 0

unpack_u8(b) == b[1]

pack_bool(on) == IF on THEN <<1>> ELSE <<0>>

\* The length dispatch of _on_flow_notif: 4 bytes float32, 2 bytes u16 / 100.0
\* (already in 1/100 units), 1 byte u8 L/min.
FlowAccepted_Upto4(d) == Len(d) \in {1, 2, 3, 4}

FlowAccepted(d) == Len(d) \in {1, 2, 4}

DecodeFlow(d) ==
    IF Len(d) = 4 THEN unpack_f32_le(d)
    ELSE IF Len(d) = 2 THEN d[1] + 256 * d[2]
    ELSE 100 * d[1]

----------------------------------------------------------------------------
\* Flow integration and the published payload

\* (self._flow_lpm or 0.0) / 60.0 * max(0.0, now - self._last_flow_ts),
\* applied only when _last_flow_ts is not None
\* Variant: the elapsed time is not clamped at 0
VolumeStep_NoClamp(flow, ts, now) ==
    IF ts = None THEN 0 ELSE OrZero(flow) * (now - ts[1])

VolumeStep(flow, ts, now) ==
    IF ts = None THEN 0 ELSE OrZero(flow) * Max(0, now - ts[1])

Detect(flow) == OrZero(flow) >= flow_detect_thresh

\* round(x, 3) of x in 1/6000 L, in 1/1000 L (ties to even)
Round3(v) ==
    LET q == v \div 6
        r == v % 6
    IN  IF r < 3 THEN q
        ELSE IF r > 3 THEN q + 1
        ELSE IF q % 2 = 0 THEN q ELSE q + 1

Payload ==
    [pump_on        |-> pump_on,
     flow_lpm       |-> flow_lpm,
     error_code     |-> error_code,
     flow_detected  |-> flow_detected,
     total_volume_l |-> Round3(total_volume_l)]

\* _push(): nothing without a coordinator, else one scheduled callback
Push == IF coordinator THEN <<Payload>> ELSE <<>>

VolumeInRange(v) == v >= 0 - MaxVolume /\ v <= MaxVolume

\* History kept with the record of the last step, for properties that speak
\* of earlier steps: the value of the last pump command whose write succeeded
\* (line 186 returned) and the time of the last accepted flow notification or
\* completed turn_off, the two places that integrate (lines 245-249 and
\* 190-193).  It is <<>> (not kept) unless the behaviour starts with it, so
\* that it costs no states where no property reads it.
NoHistory == <<>>

EmptyHistory == <<[written |-> None, sample_ts |-> None]>>

StepHistory(op, d, res) ==
    IF last.hist = NoHistory
    THEN NoHistory
    ELSE <<[written   |-> IF op \in {"turn_on", "turn_off"} /\ res = "ok"
                          THEN Some(op = "turn_on")
                          ELSE last.hist[1].written,
            sample_ts |-> IF \/ op = "flow_notif" /\ Len(d) \in {1, 2, 4}
                             \/ op = "turn_off" /\ res = "ok"
                          THEN Some(clock)
                          ELSE last.hist[1].sample_ts]>>

Step(op, d, res) ==
    [op |-> op, data |-> d, result |-> res, hist |-> StepHistory(op, d, res)]

----------------------------------------------------------------------------
\* Initial state: IrrigationBLE.__init__ and IrrigationCoordinator.__init__

\* BLE addresses of the peripherals in range (info.address)
Macs == {1, 2}

\* Config flow instances that can be in progress at the same time
Flows == {1, 2}

\* IrrigationConfigFlow.__init__: nothing discovered, no unique_id, no step
\* taken yet
NewFlow == [step |-> "init", discovered |-> {}, unique_id |-> None]

\* BG22Instance.__init__ and BG22Coordinator.__init__ (bg22/bg.py,
\* bg22/coordinator.py); position_set is the value of the device's position-set
\* characteristic, absent until a write has reached it
NewBG22 ==
    [client            |-> "none",
     connected         |-> FALSE,
     position_feedback |-> 0,
     error             |-> 0,
     target_position   |-> 0,
     position_set      |-> None]

InitData ==
    [pump_on       |-> FALSE,
     flow_lpm      |-> None,
     flow_detected |-> FALSE,
     dry_run       |-> FALSE,
     error_code    |-> ERROR_OK,
     error_message |-> "OK"]

InitState(h) ==
    /\ cli = "none"
    /\ subs = {}
    /\ connected = FALSE
    /\ coordinator = FALSE
    /\ pump_on = FALSE
    /\ flow_lpm = None
    /\ error_code = 0
    /\ last_flow_ts = None
    /\ total_volume_l = 0
    /\ flow_detected = FALSE
    /\ pc = "idle"
    /\ clock = 0
    /\ pushed = <<>>
    /\ last = [op |-> "init", data |-> <<>>, result |-> "ok", hist |-> h]
    /\ data = InitData
    /\ no_flow_since = None
    /\ run_start = None
    /\ entries = <<>>
    /\ flows = [i \in Flows |-> NewFlow]
    /\ hass_data = FALSE
    /\ platforms = "none"
    /\ setup_pc = "not_loaded"
    /\ loop_ready = <<>>
    /\ bg22 = NewBG22

Init == InitState(NoHistory)

\* The same start with the history kept
InitHistory == InitState(EmptyHistory)

\* time.monotonic() advances
Tick(max) ==
    /\ clock < max
    /\ clock' = clock + 1
    /\ pushed' = <<>>
    /\ last' = Step("tick", <<>>, "ok")
    /\ UNCHANGED <<devVars, evalVars, hostVars>>

\* set_coordinator(), called by async_setup_entry before connect()
SetCoordinator ==
    /\ ~coordinator
    /\ cli = "none"
    /\ pc = "idle"
    /\ coordinator' = TRUE
    /\ pushed' = <<>>
    /\ last' = Step("set_coordinator", <<>>, "ok")
    /\ UNCHANGED <<cli, subs, connected, cacheVars, pc, clock, evalVars,
                   hostVars>>

----------------------------------------------------------------------------
\* Notification handlers (synchronous)

\* _on_flow_notif.  An accepted payload stores the decoded flow and integrates;
\* line 250 then reads the name `flow`, which is bound nowhere: the NameError
\* is caught by `except Exception`, so lines 251 and 253 never run.  A payload
\* of any other length returns from the try block.  `finally` pushes.
OnFlowNotifBody(d) ==
    /\ cli = "open"
    /\ "flow" \in subs
    /\ IF FlowAccepted(d)
       THEN /\ flow_lpm' = Some(DecodeFlow(d))
            /\ total_volume_l' =
                   total_volume_l + VolumeStep(flow_lpm', last_flow_ts, clock)
            /\ VolumeInRange(total_volume_l')
       ELSE /\ UNCHANGED <<flow_lpm, total_volume_l>>
    /\ UNCHANGED <<last_flow_ts, flow_detected>>
    /\ UNCHANGED <<cli, subs, connected, coordinator, pump_on, error_code, pc>>
    /\ pushed' = Push'
    /\ last' = Step("flow_notif", d, "ok")
    /\ UNCHANGED <<clock, evalVars>>

\* The handler where the event loop is not followed
OnFlowNotif(d) ==
    /\ OnFlowNotifBody(d)
    /\ UNCHANGED hostVars

\* Variant: the empty-payload return leaves before the push
OnErrorNotif_SkipPush(d) ==
    /\ cli = "open"
    /\ "error" \in subs
    /\ error_code' = IF d = <<>> THEN error_code ELSE d[1]
    /\ UNCHANGED <<cli, subs, connected, coordinator, pump_on, flow_lpm,
                   last_flow_ts, total_volume_l, flow_detected, pc>>
    /\ pushed' = IF d = <<>> THEN <<>> ELSE Push'
    /\ last' = Step("error_notif", d, "ok")
    /\ UNCHANGED <<clock, evalVars, hostVars>>

\* Variant: an empty payload clears the error code
OnErrorNotif_ClearOnEmpty(d) ==
    /\ cli = "open"
    /\ "error" \in subs
    /\ error_code' = IF d = <<>> THEN 0 ELSE d[1]
    /\ UNCHANGED <<cli, subs, connected, coordinator, pump_on, flow_lpm,
                   last_flow_ts, total_volume_l, flow_detected, pc>>
    /\ pushed' = Push'
    /\ last' = Step("error_notif", d, "ok")
    /\ UNCHANGED <<clock, evalVars, hostVars>>

\* Variant: a zero code is treated like an empty payload
OnErrorNotif_IgnoreZero(d) ==
    /\ cli = "open"
    /\ "error" \in subs
    /\ error_code' = IF d = <<>> \/ d[1] = 0 THEN error_code ELSE d[1]
    /\ UNCHANGED <<cli, subs, connected, coordinator, pump_on, flow_lpm,
                   last_flow_ts, total_volume_l, flow_detected, pc>>
    /\ pushed' = Push'
    /\ last' = Step("error_notif", d, "ok")
    /\ UNCHANGED <<clock, evalVars, hostVars>>

\* _on_error_notif
OnErrorNotifBody(d) ==
    /\ cli = "open"
    /\ "error" \in subs
    /\ error_code' = IF d = <<>> THEN error_code ELSE d[1]
    /\ UNCHANGED <<cli, subs, connected, coordinator, pump_on, flow_lpm,
                   last_flow_ts, total_volume_l, flow_detected, pc>>
    /\ pushed' = Push'
    /\ last' = Step("error_notif", d, "ok")
    /\ UNCHANGED <<clock, evalVars>>

\* The handler where the event loop is not followed
OnErrorNotif(d) ==
    /\ OnErrorNotifBody(d)
    /\ UNCHANGED hostVars

\* Variant: the callback also forgets the flow value
OnDisconnect_ClearFlow ==
    /\ connected' = FALSE
    /\ flow_detected' = FALSE
    /\ flow_lpm' = None
    /\ UNCHANGED <<coordinator, pump_on, error_code, last_flow_ts,
                   total_volume_l>>
    /\ pushed' = Push'

\* _on_disconnect: the effect on the cache and the push
OnDisconnect ==
    /\ connected' = FALSE
    /\ flow_detected' = FALSE
    /\ UNCHANGED <<coordinator, pump_on, flow_lpm, error_code, last_flow_ts,
                   total_volume_l>>
    /\ pushed' = Push'

\* The transport loses the session and calls the disconnected_callback
TransportDisconnectBody ==
    /\ cli = "open"
    /\ cli' = "closed"
    /\ subs' = {}
    /\ OnDisconnect
    /\ last' = Step("on_disconnect", <<>>, "ok")
    /\ UNCHANGED <<pc, clock, evalVars>>

\* The callback where the event loop is not followed
TransportDisconnect ==
    /\ TransportDisconnectBody
    /\ UNCHANGED hostVars


----------------------------------------------------------------------------
\* connect()

ReadOK(r) == r.ok /\ Len(r.d) > 0

\* _unpack_f32_le raises struct.error unless the read returned 4 bytes
FlowReadOK(r) == r.ok /\ Len(r.d) = 4

\* Variant: the three reads share one try block, the first failure skips
\* the reads after it
ReadInitial_OneTry(rp, rf, re) ==
    /\ pump_on' = IF ReadOK(rp) THEN unpack_bool(rp.d) ELSE pump_on
    /\ IF ReadOK(rp) /\ FlowReadOK(rf)
       THEN /\ flow_lpm' = Some(unpack_f32_le(rf.d))
            /\ flow_detected' = Detect(flow_lpm')
            /\ last_flow_ts' = Some(clock)
       ELSE UNCHANGED <<flow_lpm, flow_detected, last_flow_ts>>
    /\ error_code' = IF ReadOK(rp) /\ FlowReadOK(rf) /\ ReadOK(re)
                     THEN unpack_u8(re.d) ELSE error_code
    /\ UNCHANGED <<coordinator, total_volume_l>>
    /\ pushed' = (IF ReadOK(rp) /\ FlowReadOK(rf) /\ coordinator
                  THEN <<[Payload' EXCEPT !.error_code = error_code]>>
                  ELSE <<>>) \o Push'

\* Variant: a failed flow read forgets the cached flow value
ReadInitial_ForgetFlowOnFail(rp, rf, re) ==
    /\ pump_on' = IF ReadOK(rp) THEN unpack_bool(rp.d) ELSE pump_on
    /\ IF FlowReadOK(rf)
       THEN /\ flow_lpm' = Some(unpack_f32_le(rf.d))
            /\ flow_detected' = Detect(flow_lpm')
            /\ last_flow_ts' = Some(clock)
       ELSE /\ flow_lpm' = None
            /\ UNCHANGED <<flow_detected, last_flow_ts>>
    /\ error_code' = IF ReadOK(re) THEN unpack_u8(re.d) ELSE error_code
    /\ UNCHANGED <<coordinator, total_volume_l>>
    /\ pushed' = (IF FlowReadOK(rf) /\ coordinator
                  THEN <<[Payload' EXCEPT !.error_code = error_code]>>
                  ELSE <<>>) \o Push'

\* _read_initial with the three read results rp, rf, re.  The flow branch
\* pushes once itself (before the error read), the function once at its end.
ReadInitial(rp, rf, re) ==
    /\ pump_on' = IF ReadOK(rp) THEN unpack_bool(rp.d) ELSE pump_on
    /\ IF FlowReadOK(rf)
       THEN /\ flow_lpm' = Some(unpack_f32_le(rf.d))
            /\ flow_detected' = Detect(flow_lpm')
            /\ last_flow_ts' = Some(clock)
       ELSE UNCHANGED <<flow_lpm, flow_detected, last_flow_ts>>
    /\ error_code' = IF ReadOK(re) THEN unpack_u8(re.d) ELSE error_code
    /\ UNCHANGED <<coordinator, total_volume_l>>
    /\ pushed' = (IF FlowReadOK(rf) /\ coordinator
                  THEN <<[Payload' EXCEPT !.error_code = error_code]>>
                  ELSE <<>>) \o Push'

\* Variant: no early return for a session that is already connected
ConnectBody_AlwaysEstablish ==
    \/ /\ cli # "open"
       /\ connected' = FALSE
       /\ pushed' = <<>>
       /\ UNCHANGED <<cli, subs, coordinator, cacheVars>>
    \/ /\ cli' = "open"
       /\ subs' = {}
       /\ connected' = FALSE
       /\ pushed' = <<>>
       /\ UNCHANGED <<coordinator, cacheVars>>
    \/ /\ cli' = "open"
       /\ connected' = TRUE
       /\ subs' = {"flow", "error"}
       /\ \E rp \in PumpReads, rf \in FlowReads, re \in ErrorReads :
             ReadInitial(rp, rf, re)

\* The body of connect().  The "additional initial flow read" (lines 109-126)
\* reads into `d` and then evaluates len(data) with `data` bound nowhere: the
\* NameError (or the read's own error) is swallowed by `except Exception: pass`
\* and the block changes nothing.
ConnectBody ==
    IF cli = "open"
    THEN /\ connected' = TRUE
         /\ pushed' = <<>>
         /\ UNCHANGED <<cli, subs, coordinator, cacheVars>>
    ELSE \/ \* establish_connection raises
            /\ connected' = FALSE
            /\ pushed' = <<>>
            /\ UNCHANGED <<cli, subs, coordinator, cacheVars>>
         \/ \* session established, get_services raises other than AttributeError
            /\ cli' = "open"
            /\ subs' = {}
            /\ connected' = FALSE
            /\ pushed' = <<>>
            /\ UNCHANGED <<coordinator, cacheVars>>
         \/ \* session established (get_services returns or raises
            \* AttributeError); both start_notify calls are made, their errors
            \* swallowed, then the initial reads
            /\ cli' = "open"
            /\ connected' = TRUE
            /\ subs' = {"flow", "error"}
            /\ \E rp \in PumpReads, rf \in FlowReads, re \in ErrorReads :
                  ReadInitial(rp, rf, re)

\* Variant: the outer handler logs and re-raises
Connect_Reraise ==
    /\ coordinator
    /\ pc = "idle"
    /\ ConnectBody
    /\ last' = Step("connect", <<>>, IF connected' THEN "ok" ELSE "raise")
    /\ UNCHANGED <<pc, clock, evalVars, hostVars>>

\* connect() called on its own (async_setup_entry): every exception of the
\* body is caught at lines 128-130, the call returns normally
ConnectCall ==
    /\ coordinator
    /\ pc = "idle"
    /\ ConnectBody
    /\ last' = Step("connect", <<>>, "ok")
    /\ UNCHANGED <<pc, clock, evalVars>>

\* The call where the event loop is not followed
Connect ==
    /\ ConnectCall
    /\ UNCHANGED hostVars

\* Variant: the flag is cleared inside the try block, after the transport call
Disconnect_FlagInsideTry ==
    /\ coordinator
    /\ pc = "idle"
    /\ IF cli = "open"
       THEN \/ /\ cli' = "closed"
               /\ subs' = {}
               /\ \/ OnDisconnect
                  \/ /\ connected' = FALSE
                     /\ pushed' = <<>>
                     /\ UNCHANGED <<coordinator, cacheVars>>
            \/ /\ pushed' = <<>>
               /\ UNCHANGED <<cli, subs, connected, coordinator, cacheVars>>
       ELSE /\ connected' = FALSE
            /\ pushed' = <<>>
            /\ UNCHANGED <<cli, subs, coordinator, cacheVars>>
    /\ last' = Step("disconnect", <<>>, "ok")
    /\ UNCHANGED <<pc, clock, evalVars, hostVars>>

\* disconnect(): the transport call either succeeds (the session is closed,
\* and the backend may run the disconnected_callback) or raises.
DisconnectBody ==
    IF cli = "open"
    THEN \/ /\ cli' = "closed"
            /\ subs' = {}
            /\ \/ OnDisconnect
               \/ /\ connected' = FALSE
                  /\ pushed' = <<>>
                  /\ UNCHANGED <<coordinator, cacheVars>>
         \/ /\ connected' = FALSE
            /\ pushed' = <<>>
            /\ UNCHANGED <<cli, subs, coordinator, cacheVars>>
    ELSE /\ connected' = FALSE
         /\ pushed' = <<>>
         /\ UNCHANGED <<cli, subs, coordinator, cacheVars>>

\* disconnect() called on its own
Disconnect ==
    /\ coordinator
    /\ pc = "idle"
    /\ DisconnectBody
    /\ last' = Step("disconnect", <<>>, "ok")
    /\ UNCHANGED <<pc, clock, evalVars, hostVars>>

----------------------------------------------------------------------------
\* turn_on() / turn_off()

\* Variant: the write is issued without the second connected check
WritePumpBegin_NoSecondCheck(on) ==
    /\ coordinator
    /\ pc = "idle"
    /\ IF connected
       THEN /\ pushed' = <<>>
            /\ UNCHANGED <<cli, subs, connected, coordinator, cacheVars>>
       ELSE ConnectBody
    /\ pc' = IF on THEN "write_on" ELSE "write_off"
    /\ last' = Step("write_begin", pack_bool(on), "ok")
    /\ UNCHANGED <<clock, evalVars, hostVars>>

\* _write_pump up to the write: connect() once if not connected, then raise
\* BleakError("Not connected") or issue the write.
WritePumpBegin(on) ==
    /\ coordinator
    /\ pc = "idle"
    /\ IF connected
       THEN /\ pushed' = <<>>
            /\ UNCHANGED <<cli, subs, connected, coordinator, cacheVars>>
       ELSE ConnectBody
    /\ IF connected'
       THEN /\ pc' = IF on THEN "write_on" ELSE "write_off"
            /\ last' = Step("write_begin", pack_bool(on), "ok")
       ELSE /\ pc' = "idle"
            /\ last' = Step(IF on THEN "turn_on" ELSE "turn_off", <<>>, "raise")
    /\ UNCHANGED <<clock, evalVars, hostVars>>

\* Variant: the flow is zeroed before the residual volume is integrated
WritePumpApply_ZeroFirst(on) ==
    /\ pump_on' = on
    /\ IF on
       THEN UNCHANGED <<flow_lpm, flow_detected, last_flow_ts, total_volume_l>>
       ELSE /\ flow_lpm' = Some(0)
            /\ total_volume_l' =
                   total_volume_l + VolumeStep(flow_lpm', last_flow_ts, clock)
            /\ VolumeInRange(total_volume_l')
            /\ flow_detected' = FALSE
            /\ last_flow_ts' = Some(clock)
    /\ UNCHANGED <<coordinator, error_code>>
    /\ pushed' = Push'

\* The cache update that follows a successful write (lines 187-199)
WritePumpApply(on) ==
    /\ pump_on' = on
    /\ IF on
       THEN UNCHANGED <<flow_lpm, flow_detected, last_flow_ts, total_volume_l>>
       ELSE /\ total_volume_l' =
                   total_volume_l + VolumeStep(flow_lpm, last_flow_ts, clock)
            /\ VolumeInRange(total_volume_l')
            /\ flow_lpm' = Some(0)
            /\ flow_detected' = FALSE
            /\ last_flow_ts' = Some(clock)
    /\ UNCHANGED <<coordinator, error_code>>
    /\ pushed' = Push'

\* Variant: pump_on is assigned before the write is awaited
WritePumpDone_Optimistic ==
    /\ pc \in {"write_on", "write_off"}
    /\ LET on == (pc = "write_on")
           op == IF on THEN "turn_on" ELSE "turn_off"
       IN  \/ /\ cli = "open"
              /\ WritePumpApply(on)
              /\ last' = Step(op, pack_bool(on), "ok")
           \/ /\ pump_on' = on
              /\ pushed' = <<>>
              /\ UNCHANGED <<coordinator, flow_lpm, error_code, last_flow_ts,
                             total_volume_l, flow_detected>>
              /\ last' = Step(op, pack_bool(on), "raise")
    /\ pc' = "idle"
    /\ UNCHANGED <<cli, subs, connected, clock, evalVars, hostVars>>

\* write_gatt_char completes: success, or an error that is logged and re-raised
WritePumpDone ==
    /\ pc \in {"write_on", "write_off"}
    /\ LET on == (pc = "write_on")
           op == IF on THEN "turn_on" ELSE "turn_off"
       IN  \/ /\ cli = "open"
              /\ WritePumpApply(on)
              /\ last' = Step(op, pack_bool(on), "ok")
           \/ /\ pushed' = <<>>
              /\ UNCHANGED <<coordinator, cacheVars>>
              /\ last' = Step(op, pack_bool(on), "raise")
    /\ pc' = "idle"
    /\ UNCHANGED <<cli, subs, connected, clock, evalVars, hostVars>>

----------------------------------------------------------------------------
\* read_all()

ReadAllBegin ==
    /\ coordinator
    /\ pc = "idle"
    /\ IF connected
       THEN /\ pushed' = <<>>
            /\ UNCHANGED <<cli, subs, connected, coordinator, cacheVars>>
       ELSE ConnectBody
    /\ pc' = "read_all"
    /\ last' = Step("read_all_begin", <<>>, "ok")
    /\ UNCHANGED <<clock, evalVars, hostVars>>

\* The three best-effort reads and the push (lines 209-222)
ReadAllApply(rp, rf, re) ==
    /\ pump_on' = IF ReadOK(rp) THEN unpack_bool(rp.d) ELSE pump_on
    /\ IF FlowReadOK(rf)
       THEN /\ flow_lpm' = Some(unpack_f32_le(rf.d))
            /\ last_flow_ts' = Some(clock)
       ELSE UNCHANGED <<flow_lpm, last_flow_ts>>
    /\ error_code' = IF ReadOK(re) THEN unpack_u8(re.d) ELSE error_code
    /\ UNCHANGED <<coordinator, total_volume_l, flow_detected>>
    /\ pushed' = Push'

ReadAllDone ==
    /\ pc = "read_all"
    /\ IF cli = "open"
       THEN \E rp \in PumpReads, rf \in FlowReads, re \in ErrorReads :
               ReadAllApply(rp, rf, re)
       ELSE ReadAllApply(ReadFail, ReadFail, ReadFail)
    /\ pc' = "idle"
    /\ last' = Step("read_all", <<>>, "ok")
    /\ UNCHANGED <<cli, subs, connected, clock, evalVars, hostVars>>

----------------------------------------------------------------------------
\* Specification of the device

Next ==
    \/ Tick(MaxClock)
    \/ SetCoordinator
    \/ Connect
    \/ Disconnect
    \/ TransportDisconnect
    \/ \E d \in FlowPayloads : OnFlowNotif(d)
    \/ \E d \in ErrorPayloads : OnErrorNotif(d)
    \/ \E on \in BOOLEAN : WritePumpBegin(on)
    \/ WritePumpDone
    \/ ReadAllBegin
    \/ ReadAllDone

Spec == Init /\ [][Next]_vars

\* The device with the history of writes and samples kept
SpecHistory == InitHistory /\ [][Next]_vars

----------------------------------------------------------------------------
\* The integration of the volume on its own

\* Cached flow values the integration at turn_off can meet
IntegFlows == {None, Some(0), Some(5), Some(0 - 5)}

\* A connected device whose cache holds any flow, any (or no) timestamp of the
\* last sample and any total, at any time: the timestamp may lie after the
\* time, the case that max(0.0, now - self._last_flow_ts) guards.
InitIntegrate ==
    /\ cli = "open"
    /\ subs = {"flow", "error"}
    /\ connected = TRUE
    /\ coordinator = TRUE
    /\ pump_on \in BOOLEAN
    /\ flow_lpm \in IntegFlows
    /\ error_code = 0
    /\ last_flow_ts \in {None} \cup {Some(t) : t \in 0..MaxIntegTime}
    /\ total_volume_l \in {0, 5}
    /\ flow_detected = FALSE
    /\ pc = "idle"
    /\ clock \in 0..MaxIntegTime
    /\ pushed = <<>>
    /\ last = [op |-> "init", data |-> <<>>, result |-> "ok", hist |-> NoHistory]
    /\ data = InitData
    /\ no_flow_since = None
    /\ run_start = None
    /\ entries = <<>>
    /\ flows = [i \in Flows |-> NewFlow]
    /\ hass_data = FALSE
    /\ platforms = "none"
    /\ setup_pc = "not_loaded"
    /\ loop_ready = <<>>
    /\ bg22 = NewBG22

\* The two places that integrate: a flow notification and turn_off
NextIntegrate ==
    \/ \E d \in FlowPayloads : OnFlowNotif(d)
    \/ WritePumpBegin(FALSE)
    \/ WritePumpDone

SpecIntegrate == InitIntegrate /\ [][NextIntegrate]_vars

----------------------------------------------------------------------------
\* The config flow (config_flow.py).  The flow framework is Home Assistant's:
\* _async_current_ids() is the set of unique ids of the domain's entries (None
\* for an entry whose flow set no unique id); an entry created by a flow gets
\* the flow's unique id; async_set_unique_id aborts the flow when another flow
\* with that unique id is in progress; a flow that finishes with a unique id
\* replaces an entry that has the same unique id and aborts the other flows
\* that have it.

RECURSIVE SortedSeq(_)
SortedSeq(S) ==
    IF S = {}
    THEN <<>>
    ELSE LET m == CHOOSE x \in S : \A y \in S : x <= y
         IN  <<m>> \o SortedSeq(S \ {m})

\* self._async_current_ids()
CurrentIds == {entries[k].unique_id : k \in DOMAIN entries}

\* async_create_entry(data={CONF_DEVICE_MAC: mac, ..}) by flow i, which ends
CreateEntry(i, mac) ==
    LET uid  == flows[i].unique_id
        kept == IF uid = None
                THEN entries
                ELSE SelectSeq(entries, LAMBDA e : e.unique_id # uid)
    IN  /\ entries' = Append(kept, [mac |-> mac, unique_id |-> uid])
        /\ flows' = [j \in Flows |->
                        IF j = i \/ (uid # None /\ flows[j].unique_id = uid)
                        THEN NewFlow ELSE flows[j]]

\* async_step_user, the peripherals in `visible` being in the Bluetooth cache
StepUser(i, visible) ==
    /\ flows[i].step = "init"
    /\ Len(entries) < MaxEntries
    /\ LET disc == {m \in visible : Some(m) \notin CurrentIds}
       IN  IF disc = {}
           THEN /\ UNCHANGED <<entries, flows>>
                /\ last' = Step("step_user", SortedSeq(visible),
                                "abort:no_devices_found")
           ELSE IF Cardinality(disc) = 1
           THEN /\ CreateEntry(i, CHOOSE m \in disc : TRUE)
                /\ last' = Step("step_user", SortedSeq(visible), "create_entry")
           ELSE /\ flows' = [flows EXCEPT ![i] = [step       |-> "select_device",
                                                  discovered |-> disc,
                                                  unique_id  |-> None]]
                /\ UNCHANGED entries
                /\ last' = Step("step_user", SortedSeq(visible),
                                "form:select_device")
    /\ pushed' = <<>>
    /\ UNCHANGED <<devVars, clock, evalVars, hass_data, platforms, setup_pc,
                   loop_ready, bg22>>

\* async_step_select_device with the address chosen in the form
StepSelectDevice(i, addr) ==
    /\ flows[i].step = "select_device"
    /\ addr \in flows[i].discovered
    /\ Len(entries) < MaxEntries
    /\ CreateEntry(i, addr)
    /\ last' = Step("step_select_device", <<addr>>, "create_entry")
    /\ pushed' = <<>>
    /\ UNCHANGED <<devVars, clock, evalVars, hass_data, platforms, setup_pc,
                   loop_ready, bg22>>

\* async_step_bluetooth for a discovered peripheral, up to the confirm form
StepBluetooth(i, mac) ==
    /\ flows[i].step = "init"
    /\ IF \E j \in Flows \ {i} : flows[j].unique_id = Some(mac)
       THEN /\ UNCHANGED flows
            /\ last' = Step("step_bluetooth", <<mac>>, "abort:already_in_progress")
       ELSE IF Some(mac) \in CurrentIds
       THEN /\ UNCHANGED flows
            /\ last' = Step("step_bluetooth", <<mac>>, "abort:already_configured")
       ELSE /\ flows' = [flows EXCEPT ![i] = [step       |-> "bluetooth_confirm",
                                              discovered |-> {mac},
                                              unique_id  |-> Some(mac)]]
            /\ last' = Step("step_bluetooth", <<mac>>, "form:bluetooth_confirm")
    /\ pushed' = <<>>
    /\ UNCHANGED <<entries, devVars, clock, evalVars, hass_data, platforms,
                   setup_pc, loop_ready, bg22>>

\* async_step_bluetooth_confirm with the form submitted
StepBluetoothConfirm(i) ==
    /\ flows[i].step = "bluetooth_confirm"
    /\ Len(entries) < MaxEntries
    /\ CreateEntry(i, flows[i].unique_id[1])
    /\ last' = Step("step_bluetooth_confirm", flows[i].unique_id, "create_entry")
    /\ pushed' = <<>>
    /\ UNCHANGED <<devVars, clock, evalVars, hass_data, platforms, setup_pc,
                   loop_ready, bg22>>

NextFlow ==
    \/ \E i \in Flows, visible \in SUBSET Macs : StepUser(i, visible)
    \/ \E i \in Flows, addr \in Macs : StepSelectDevice(i, addr)
    \/ \E i \in Flows, mac \in Macs : StepBluetooth(i, mac)
    \/ \E i \in Flows : StepBluetoothConfirm(i)

SpecFlow == Init /\ [][NextFlow]_vars

----------------------------------------------------------------------------
\* Setup and unload of the config entry (__init__.py).  Before
\* async_setup_entry constructs the device, the device variables hold the
\* values that IrrigationBLE.__init__ gives them.

\* Variant: device and coordinator are created before the address is resolved
SetupEntry_CreateFirst(resolved) ==
    /\ setup_pc = "not_loaded"
    /\ coordinator' = TRUE
    /\ IF resolved
       THEN /\ setup_pc' = "connect"
            /\ last' = Step("setup_begin", <<1>>, "ok")
       ELSE /\ setup_pc' = "not_loaded"
            /\ last' = Step("setup_entry", <<0>>, "raise")
    /\ pushed' = <<>>
    /\ UNCHANGED <<cli, subs, connected, cacheVars, pc, clock, evalVars,
                   entries, flows, hass_data, platforms, loop_ready, bg22>>

\* async_setup_entry up to `await device.connect()`.  async_ble_device_from_address
\* returns a device (resolved) or None; None raises ConfigEntryNotReady at
\* line 79, before IrrigationBLE and IrrigationCoordinator are constructed and
\* set_coordinator is called (lines 86-88).
SetupEntry(resolved) ==
    /\ setup_pc = "not_loaded"
    /\ IF resolved
       THEN /\ coordinator' = TRUE
            /\ setup_pc' = "connect"
            /\ last' = Step("setup_begin", <<1>>, "ok")
       ELSE /\ UNCHANGED <<coordinator, setup_pc>>
            /\ last' = Step("setup_entry", <<0>>, "raise")
    /\ pushed' = <<>>
    /\ UNCHANGED <<cli, subs, connected, cacheVars, pc, clock, evalVars,
                   entries, flows, hass_data, platforms, loop_ready, bg22>>

\* `await device.connect()` returns (it never raises) and the pair is stored
\* in hass.data[DOMAIN][entry_id]
SetupConnect ==
    /\ setup_pc = "connect"
    /\ ConnectBody
    /\ hass_data' = TRUE
    /\ setup_pc' = "forward"
    /\ last' = Step("setup_connect", <<1>>, "ok")
    /\ UNCHANGED <<pc, clock, evalVars, entries, flows, platforms, loop_ready, bg22>>

\* async_forward_entry_setups returns: the entities exist, setup returns True
SetupForward ==
    /\ setup_pc = "forward"
    /\ platforms' = "loaded"
    /\ setup_pc' = "loaded"
    /\ last' = Step("setup_entry", <<1>>, "ok")
    /\ pushed' = <<>>
    /\ UNCHANGED <<devVars, clock, evalVars, entries, flows, hass_data,
                   loop_ready, bg22>>

\* Variant: the pair is popped but the device is not disconnected
UnloadEntry_SkipDisconnect ==
    /\ setup_pc = "loaded"
    /\ hass_data' = FALSE
    /\ setup_pc' = "unload_platforms"
    /\ last' = Step("unload_disconnect", <<>>, "ok")
    /\ pushed' = <<>>
    /\ UNCHANGED <<devVars, clock, evalVars, entries, flows, platforms,
                   loop_ready, bg22>>

\* async_unload_entry up to `await async_unload_platforms`: the pair is popped
\* and device.disconnect() has returned
UnloadEntry ==
    /\ setup_pc = "loaded"
    /\ hass_data' = FALSE
    /\ DisconnectBody
    /\ setup_pc' = "unload_platforms"
    /\ last' = Step("unload_disconnect", <<>>, "ok")
    /\ UNCHANGED <<pc, clock, evalVars, entries, flows, platforms, loop_ready, bg22>>

\* async_unload_platforms returns: the entities are removed
UnloadPlatforms ==
    /\ setup_pc = "unload_platforms"
    /\ platforms' = "unloaded"
    /\ setup_pc' = "unloaded"
    /\ last' = Step("unload_entry", <<>>, "ok")
    /\ pushed' = <<>>
    /\ UNCHANGED <<devVars, clock, evalVars, entries, flows, hass_data,
                   loop_ready, bg22>>

\* The entry's life, with the BLE events of the session
NextHost ==
    \/ Tick(MaxClock)
    \/ \E resolved \in BOOLEAN : SetupEntry(resolved)
    \/ SetupConnect
    \/ SetupForward
    \/ UnloadEntry
    \/ UnloadPlatforms
    \/ TransportDisconnect
    \/ \E d \in FlowPayloads : OnFlowNotif(d)
    \/ \E d \in ErrorPayloads : OnErrorNotif(d)

SpecHost == Init /\ [][NextHost]_vars

----------------------------------------------------------------------------
\* Delivery of a pushed snapshot to the observers.  The event loop's queue of
\* scheduled callbacks is followed in this specification only; elsewhere
\* `pushed` shows what a step hands to the loop and loop_ready stays empty.

\* Largest number of scheduled callbacks waiting on the event loop
MaxQueue == 2

\* hass.loop.call_soon_threadsafe(self._coordinator.async_set_updated_data,
\* payload), for each payload the step pushes: the callback is appended to the
\* loop's queue and the call returns; nothing of the coordinator is touched.
CallSoonThreadsafe ==
    /\ Len(loop_ready) + Len(pushed') <= MaxQueue
    /\ loop_ready' = loop_ready \o pushed'
    /\ UNCHANGED <<entries, flows, hass_data, platforms, setup_pc, bg22>>

ConnectScheduled ==
    /\ ConnectCall
    /\ CallSoonThreadsafe

DisconnectScheduled ==
    /\ TransportDisconnectBody
    /\ CallSoonThreadsafe

FlowNotifScheduled(d) ==
    /\ OnFlowNotifBody(d)
    /\ CallSoonThreadsafe

ErrorNotifScheduled(d) ==
    /\ OnErrorNotifBody(d)
    /\ CallSoonThreadsafe

\* Variant: the loop runs the callback scheduled last
AsyncSetUpdatedData_Newest ==
    /\ loop_ready # <<>>
    /\ data' = loop_ready[Len(loop_ready)]
    /\ loop_ready' = SubSeq(loop_ready, 1, Len(loop_ready) - 1)
    /\ pushed' = <<>>
    /\ last' = Step("async_set_updated_data", <<>>, "ok")
    /\ UNCHANGED <<devVars, clock, no_flow_since, run_start, entries, flows,
                   hass_data, platforms, setup_pc, bg22>>

\* The event loop runs the oldest scheduled callback,
\* coordinator.async_set_updated_data(payload): the coordinator takes the
\* payload as its data and notifies its listeners (the entities).
AsyncSetUpdatedData ==
    /\ loop_ready # <<>>
    /\ data' = Head(loop_ready)
    /\ loop_ready' = Tail(loop_ready)
    /\ pushed' = <<>>
    /\ last' = Step("async_set_updated_data", <<>>, "ok")
    /\ UNCHANGED <<devVars, clock, no_flow_since, run_start, entries, flows,
                   hass_data, platforms, setup_pc, bg22>>

\* BLE events and the event loop that delivers what they push
NextPush ==
    \/ SetCoordinator
    \/ ConnectScheduled
    \/ DisconnectScheduled
    \/ \E d \in {F32_Quarter, U8_Zero} : FlowNotifScheduled(d)
    \/ \E d \in ErrorPayloads : ErrorNotifScheduled(d)
    \/ AsyncSetUpdatedData

SpecPush == Init /\ [][NextPush]_vars

----------------------------------------------------------------------------
\* connect() at the granularity of its awaits.  Each await (establish_connection,
\* get_services, the two start_notify calls, the three reads of _read_initial
\* and the additional flow read) is a point where the event loop runs other
\* callbacks: a notification on a channel already subscribed, or the
\* disconnected_callback.  pc holds the await the call is suspended at.

ConnectPositions ==
    {"connect_services", "connect_notify_flow", "connect_notify_error",
     "connect_read_pump", "connect_read_flow", "connect_read_error",
     "connect_extra_read"}

\* A read on the session: any result while it is open, an error once it is not
SessionReads(S) == IF cli = "open" THEN S ELSE {ReadFail}

\* Lines 82-93: the early return, or establish_connection, which raises (line
\* 129 clears the flag) or returns the new session (line 93 sets the flag)
ConnectEstablish ==
    /\ coordinator
    /\ pc = "idle"
    /\ IF cli = "open"
       THEN /\ connected' = TRUE
            /\ UNCHANGED <<cli, subs, pc>>
            /\ last' = Step("connect", <<>>, "ok")
       ELSE \/ /\ connected' = FALSE
               /\ UNCHANGED <<cli, subs, pc>>
               /\ last' = Step("connect", <<>>, "ok")
            \/ /\ cli' = "open"
               /\ subs' = {}
               /\ connected' = TRUE
               /\ pc' = "connect_services"
               /\ last' = Step("connect_establish", <<>>, "ok")
    /\ pushed' = <<>>
    /\ UNCHANGED <<coordinator, cacheVars, clock, evalVars, hostVars>>

\* Lines 97-100: get_services returns or raises AttributeError (passed over),
\* or raises another error, which ends connect() at lines 128-130
ConnectGetServices ==
    /\ pc = "connect_services"
    /\ \/ /\ pc' = "connect_notify_flow"
          /\ last' = Step("connect_services", <<>>, "ok")
          /\ UNCHANGED connected
       \/ /\ pc' = "idle"
          /\ connected' = FALSE
          /\ last' = Step("connect", <<>>, "ok")
    /\ pushed' = <<>>
    /\ UNCHANGED <<cli, subs, coordinator, cacheVars, clock, evalVars, hostVars>>

\* Lines 103-104: _safe_start_notify for channel ch, its error swallowed
ConnectStartNotify(ch) ==
    /\ pc = (IF ch = "flow" THEN "connect_notify_flow" ELSE "connect_notify_error")
    /\ subs' = IF cli = "open" THEN subs \cup {ch} ELSE subs
    /\ pc' = (IF ch = "flow" THEN "connect_notify_error" ELSE "connect_read_pump")
    /\ last' = Step("connect_notify", <<>>, "ok")
    /\ pushed' = <<>>
    /\ UNCHANGED <<cli, connected, coordinator, cacheVars, clock, evalVars,
                   hostVars>>

\* Lines 151-154
ConnectReadPump(rp) ==
    /\ pc = "connect_read_pump"
    /\ rp \in SessionReads(PumpReads)
    /\ pump_on' = IF ReadOK(rp) THEN unpack_bool(rp.d) ELSE pump_on
    /\ pc' = "connect_read_flow"
    /\ last' = Step("connect_read_pump", <<>>, "ok")
    /\ pushed' = <<>>
    /\ UNCHANGED <<cli, subs, connected, coordinator, flow_lpm, error_code,
                   last_flow_ts, total_volume_l, flow_detected, clock, evalVars,
                   hostVars>>

\* Lines 155-161
ConnectReadFlow(rf) ==
    /\ pc = "connect_read_flow"
    /\ rf \in SessionReads(FlowReads)
    /\ IF FlowReadOK(rf)
       THEN /\ flow_lpm' = Some(unpack_f32_le(rf.d))
            /\ flow_detected' = Detect(flow_lpm')
            /\ last_flow_ts' = Some(clock)
       ELSE UNCHANGED <<flow_lpm, flow_detected, last_flow_ts>>
    /\ UNCHANGED <<cli, subs, connected, coordinator, pump_on, error_code,
                   total_volume_l>>
    /\ pushed' = IF FlowReadOK(rf) THEN Push' ELSE <<>>
    /\ pc' = "connect_read_error"
    /\ last' = Step("connect_read_flow", <<>>, "ok")
    /\ UNCHANGED <<clock, evalVars, hostVars>>

\* Lines 162-166
ConnectReadError(re) ==
    /\ pc = "connect_read_error"
    /\ re \in SessionReads(ErrorReads)
    /\ error_code' = IF ReadOK(re) THEN unpack_u8(re.d) ELSE error_code
    /\ UNCHANGED <<cli, subs, connected, coordinator, pump_on, flow_lpm,
                   last_flow_ts, total_volume_l, flow_detected>>
    /\ pushed' = Push'
    /\ pc' = "connect_extra_read"
    /\ last' = Step("connect_read_error", <<>>, "ok")
    /\ UNCHANGED <<clock, evalVars, hostVars>>

\* Lines 109-126: the additional flow read, which changes nothing (NameError
\* at line 113, or the read's own error), and the return
ConnectExtraRead ==
    /\ pc = "connect_extra_read"
    /\ pc' = "idle"
    /\ last' = Step("connect", <<>>, "ok")
    /\ pushed' = <<>>
    /\ UNCHANGED <<cli, subs, connected, coordinator, cacheVars, clock, evalVars,
                   hostVars>>

\* Flow payloads delivered while connect() is followed await by await
SeedFlowPayloads == {<<1, 2, 3>>, F32_Quarter, U8_Zero}

NextConnect ==
    \/ Tick(MaxClock)
    \/ SetCoordinator
    \/ ConnectEstablish
    \/ ConnectGetServices
    \/ \E ch \in {"flow", "error"} : ConnectStartNotify(ch)
    \/ \E rp \in PumpReads : ConnectReadPump(rp)
    \/ \E rf \in FlowReads : ConnectReadFlow(rf)
    \/ \E re \in ErrorReads : ConnectReadError(re)
    \/ ConnectExtraRead
    \/ TransportDisconnect
    \/ \E d \in SeedFlowPayloads : OnFlowNotif(d)
    \/ \E d \in ErrorPayloads : OnErrorNotif(d)

SpecConnect == Init /\ [][NextConnect]_vars

----------------------------------------------------------------------------
\* The BG22 position device (bg22/bg.py, bg22/coordinator.py, bg22/number.py):
\* a BG22Instance constructed as its __init__(hass, mac) asks, with its
\* coordinator attached, and the PositionSetNumber entity on top of them.
\* (async_setup_entry of bg22/__init__.py, line 28, calls BG22Instance(mac),
\* which raises TypeError before any of this exists.)

\* Values the number entity passes on, int(value); the entity's range is 0..100
PositionValues == {0, 40, 100}

\* max(0, min(100, int(value)))
ClampPosition(v) == IF v < 0 THEN 0 ELSE IF v > 100 THEN 100 ELSE v

\* What the BG22 steps leave alone
BG22Frame ==
    /\ pushed' = <<>>
    /\ UNCHANGED <<devVars, clock, evalVars, entries, flows, hass_data,
                   platforms, setup_pc, loop_ready>>

\* _ensure_connected: the <<client, connected>> pairs it can leave.  Nothing
\* to do on a live session; else no connectable device or establish_connection
\* fails (the flag is cleared), or a new session (start_notify errors are
\* logged only).
EnsureConnected ==
    IF bg22.connected /\ bg22.client = "open"
    THEN {<<bg22.client, bg22.connected>>}
    ELSE {<<bg22.client, FALSE>>, <<"open", TRUE>>}

\* PositionSetNumber.async_set_native_value(value): write_position clamps and
\* calls _send, which returns without writing when the client is not
\* connected, and logs a failed write and clears the flag; then
\* handle_target_position(int(value)) runs whatever happened.
SetNativeValue(value) ==
    /\ \E ec \in EnsureConnected :
        \/ /\ ec[1] # "open"
           /\ bg22' = [bg22 EXCEPT !.client = ec[1], !.connected = ec[2],
                                   !.target_position = value]
           /\ last' = Step("set_native_value", <<value>>, "not_sent")
        \/ /\ ec[1] = "open"
           /\ bg22' = [bg22 EXCEPT !.client = "open", !.connected = ec[2],
                                   !.position_set = Some(ClampPosition(value)),
                                   !.target_position = value]
           /\ last' = Step("set_native_value", <<value>>, "written")
        \/ /\ ec[1] = "open"
           /\ bg22' = [bg22 EXCEPT !.client = "open", !.connected = FALSE,
                                   !.target_position = value]
           /\ last' = Step("set_native_value", <<value>>, "write_failed")
    /\ BG22Frame

\* _position_feedback_handler: an empty payload is dropped
PositionFeedbackHandler(d) ==
    /\ bg22.client = "open"
    /\ bg22' = IF d = <<>> THEN bg22
               ELSE [bg22 EXCEPT !.position_feedback = d[1]]
    /\ last' = Step("position_feedback", d, "ok")
    /\ BG22Frame

\* _error_handler: an empty payload is dropped
ErrorHandler(d) ==
    /\ bg22.client = "open"
    /\ bg22' = IF d = <<>> THEN bg22 ELSE [bg22 EXCEPT !.error = d[1]]
    /\ last' = Step("error", d, "ok")
    /\ BG22Frame

\* The session is lost; no disconnected_callback is registered (line 61-66)
BG22ConnectionLost ==
    /\ bg22.client = "open"
    /\ bg22' = [bg22 EXCEPT !.client = "closed"]
    /\ last' = Step("connection_lost", <<>>, "ok")
    /\ BG22Frame

\* BG22Instance.disconnect
BG22Disconnect ==
    /\ bg22.client # "none"
    /\ bg22' = [bg22 EXCEPT !.client = "none", !.connected = FALSE]
    /\ last' = Step("bg22_disconnect", <<>>, "ok")
    /\ BG22Frame

NextPosition ==
    \/ \E value \in PositionValues : SetNativeValue(value)
    \/ \E d \in {<<>>, <<7>>} : PositionFeedbackHandler(d)
    \/ \E d \in {<<>>, <<1>>} : ErrorHandler(d)
    \/ BG22ConnectionLost
    \/ BG22Disconnect

SpecPosition == Init /\ [][NextPosition]_vars

----------------------------------------------------------------------------
\* Derived-state evaluator: IrrigationCoordinator.handle_state_update

EvalFlows == {None, Some(0), Some(5), Some(20), Some(25)}

EvalErrorCodes == {0, 1, 2, 3, 255}

\* flow_detected = (flow_lpm is not None) and (flow_lpm >= FLOW_THRESHOLD_LPM)
EvalDetect(f) == f # None /\ f[1] >= FLOW_THRESHOLD_LPM

\* Variant: the timer is reset by detected flow only, not by the pump going off
NextNoFlowSince_KeepOnPumpOff(p, det, nfs, now) ==
    IF p /\ ~det
    THEN IF nfs = None THEN Some(now) ELSE nfs
    ELSE IF det THEN None ELSE nfs

\* self._no_flow_since after the dry-run block
NextNoFlowSince(p, det, nfs, now) ==
    IF p /\ ~det
    THEN IF nfs = None THEN Some(now) ELSE nfs
    ELSE None

\* Variant: strictly more than the delay
DryRun_Strict(p, det, nfs, now) ==
    /\ p
    /\ ~det
    /\ nfs # None
    /\ now - nfs[1] > DRY_RUN_DELAY_SEC

\* dry_run after the dry-run block
DryRun(p, det, nfs, now) ==
    /\ p
    /\ ~det
    /\ nfs # None
    /\ now - nfs[1] >= DRY_RUN_DELAY_SEC

\* Variant: a zero flow counts as a missing reading
ResolveCode_ZeroIsFault(e, dry, f) ==
    IF e # ERROR_OK THEN e
    ELSE IF dry THEN ERROR_DRY_RUN
    ELSE IF f = None \/ f[1] = 0 THEN ERROR_SENSOR_FAULT
    ELSE ERROR_OK

\* Variant: the dry-run test comes before the device's code
ResolveCode_DryFirst(e, dry, f) ==
    IF dry THEN ERROR_DRY_RUN
    ELSE IF e # ERROR_OK THEN e
    ELSE IF f = None THEN ERROR_SENSOR_FAULT
    ELSE ERROR_OK

\* The error code selection
ResolveCode(e, dry, f) ==
    IF e # ERROR_OK THEN e
    ELSE IF dry THEN ERROR_DRY_RUN
    ELSE IF f = None THEN ERROR_SENSOR_FAULT
    ELSE ERROR_OK

\* Variant: a code without a table entry falls back to the OK text
err_msg_DefaultOK(code) ==
    IF code = ERROR_OK THEN "OK"
    ELSE IF code = ERROR_DRY_RUN THEN "Dry run detected"
    ELSE IF code = ERROR_SENSOR_FAULT THEN "Flow sensor fault"
    ELSE "OK"

\* _err_msg: dict lookup with .get(code, "Unknown error")
err_msg(code) ==
    IF code = ERROR_OK THEN "OK"
    ELSE IF code = ERROR_DRY_RUN THEN "Dry run detected"
    ELSE IF code = ERROR_SENSOR_FAULT THEN "Flow sensor fault"
    ELSE "Unknown error"

\* run_start follows the evaluations themselves: the time of the first of the
\* latest consecutive evaluations with the pump on and flow undetected.
HandleStateUpdate(p, f, e) ==
    LET det  == EvalDetect(f)
        dry  == DryRun(p, det, no_flow_since, clock)
        code == ResolveCode(e, dry, f)
        und  == p /\ ~(f # None /\ f[1] >= FLOW_THRESHOLD_LPM)
    IN  /\ no_flow_since' = NextNoFlowSince(p, det, no_flow_since, clock)
        /\ data' = [pump_on       |-> p,
                    flow_lpm      |-> f,
                    flow_detected |-> det,
                    dry_run       |-> dry,
                    error_code    |-> code,
                    error_message |-> err_msg(code)]
        /\ run_start' = IF und
                        THEN (IF run_start = None THEN Some(clock) ELSE run_start)
                        ELSE None
        /\ pushed' = <<>>
        /\ last' = Step("handle_state_update", <<e>>, "ok")
        /\ UNCHANGED <<devVars, clock, hostVars>>

NextEval ==
    \/ Tick(MaxEvalClock)
    \/ \E p \in BOOLEAN, f \in EvalFlows, e \in EvalErrorCodes :
          HandleStateUpdate(p, f, e)

SpecEval == Init /\ [][NextEval]_vars


----------------------------------------------------------------------------
\* Properties

IsEval == last.op = "handle_state_update"

\* C1: with a coordinator attached, each run of the flow handler, the error
\* handler and the disconnect callback pushes exactly one payload, the current
\* one, whatever the payload was.
C1_OnePushPerHandler ==
    (coordinator /\ last.op \in {"flow_notif", "error_notif", "on_disconnect"})
        => pushed = <<Payload>>

C1_Witness ==
    /\ last.op = "flow_notif"
    /\ last.data = <<1, 2, 3>>
    /\ Len(pushed) = 1
    /\ flow_lpm # None

\* C2: no step decreases total_volume_l.
C2_TotalNeverDecreases == [][total_volume_l' >= total_volume_l]_vars

\* C3: after a flow notification of length 4, 2 or 1, flow_lpm is the decoded
\* value, last_flow_ts is the handler's time and flow_detected is
\* flow_lpm >= 0.05.
C3_FlowNotifPost ==
    (last.op = "flow_notif" /\ Len(last.data) \in {1, 2, 4})
        => /\ flow_lpm = Some(DecodeFlow(last.data))
           /\ last_flow_ts = Some(clock)
           /\ flow_detected = (flow_lpm[1] >= flow_detect_thresh)

\* C4: a flow notification whose length is not 1, 2 or 4 leaves flow_lpm,
\* total_volume_l, last_flow_ts and flow_detected as they were and pushes the
\* unchanged payload.
C4_MalformedFlowRetained ==
    [][(last'.op = "flow_notif" /\ Len(last'.data) \notin {1, 2, 4})
          => /\ UNCHANGED <<flow_lpm, total_volume_l, last_flow_ts, flow_detected>>
             /\ Payload' = Payload
             /\ pushed' = <<Payload>>]_vars

C4_Witness ==
    /\ last.op = "flow_notif"
    /\ Len(last.data) = 3
    /\ flow_lpm = Some(25)
    /\ flow_detected
    /\ pushed = <<Payload>>

\* C5: a successful turn_off adds flow_lpm * max(0, now - last_flow_ts) / 60 to
\* total_volume_l (nothing when last_flow_ts or flow_lpm is None) and ends with
\* pump_on false, flow_lpm 0 and flow_detected false in the pushed payload.
C5_TurnOffIntegrates ==
    [][(last'.op = "turn_off" /\ last'.result = "ok")
          => /\ total_volume_l' = total_volume_l +
                   (IF last_flow_ts = None \/ flow_lpm = None
                    THEN 0
                    ELSE flow_lpm[1] * Max(0, clock' - last_flow_ts[1]))
             /\ Len(pushed') = 1
             /\ pushed'[1].pump_on = FALSE
             /\ pushed'[1].flow_lpm = Some(0)
             /\ pushed'[1].flow_detected = FALSE
             /\ pushed'[1].total_volume_l = Round3(total_volume_l')
             /\ pump_on' = FALSE
             /\ flow_lpm' = Some(0)
             /\ flow_detected' = FALSE]_vars

C5_Witness ==
    /\ last.op = "turn_off"
    /\ last.result = "ok"
    /\ total_volume_l = 10
    /\ pushed # <<>>
    /\ pushed[1].flow_lpm = Some(0)
    /\ pushed[1].total_volume_l = 2

\* C6: an error notification with an empty payload changes no cache field and
\* pushes exactly once.
C6_EmptyErrorIgnored ==
    [][(last'.op = "error_notif" /\ last'.data = <<>>)
          => /\ UNCHANGED <<cacheVars, connected>>
             /\ Len(pushed') = 1]_vars

C6_Witness ==
    /\ last.op = "error_notif"
    /\ last.data = <<>>
    /\ error_code = 3
    /\ Len(pushed) = 1

\* C7: an error notification with a non-empty payload sets error_code to the
\* first byte whatever it was before, and changes no other cache field.
C7_ErrorReplaced ==
    [][(last'.op = "error_notif" /\ last'.data # <<>>)
          => /\ error_code' = last'.data[1]
             /\ UNCHANGED <<pump_on, flow_lpm, last_flow_ts, total_volume_l,
                            flow_detected, connected>>]_vars

C7_Witness ==
    /\ last.op = "error_notif"
    /\ last.data = <<0>>
    /\ error_code = 0
    /\ flow_lpm # None
    /\ pump_on

C9_DryRunOnlyWhilePumping ==
    /\ data.dry_run => (data.pump_on /\ ~data.flow_detected)
    /\ (IsEval /\ (~data.pump_on \/ data.flow_detected))
          => (~data.dry_run /\ no_flow_since = None)
    /\ (IsEval /\ data.dry_run)
          => (run_start # None /\ clock - run_start[1] >= DRY_RUN_DELAY_SEC)

C9_Witness ==
    /\ IsEval
    /\ data.dry_run
    /\ data.pump_on
    /\ run_start # None
    /\ run_start[1] > 0
    /\ no_flow_since = run_start

\* C10: the resolved error code is the raw code when that is non-zero, else
\* the dry-run code when dry_run, else the sensor-fault code when flow_lpm is
\* None, else the no-error code.
C10_ErrorPriority ==
    IsEval
        => data.error_code =
              (IF last.data[1] # 0 THEN last.data[1]
               ELSE IF data.dry_run THEN 1
               ELSE IF data.flow_lpm = None THEN 2
               ELSE 0)

C10_Witness ==
    /\ IsEval
    /\ last.data = <<3>>
    /\ data.dry_run
    /\ data.flow_lpm = None
    /\ data.error_code = 3

\* C11: every resolved code has a message: the table's text for 0, 1 and 2,
\* and the fixed unknown-error text for any other code (3, 255).
C11_ErrorMessageTotal ==
    IsEval
        => /\ data.error_message \in
                 {"OK", "Dry run detected", "Flow sensor fault", "Unknown error"}
           /\ (data.error_code = 0) <=> (data.error_message = "OK")
           /\ (data.error_code = 1) <=> (data.error_message = "Dry run detected")
           /\ (data.error_code = 2) <=> (data.error_message = "Flow sensor fault")
           /\ (data.error_code \notin {0, 1, 2})
                 <=> (data.error_message = "Unknown error")

C11_Witness ==
    /\ IsEval
    /\ last.data = <<255>>
    /\ data.error_code = 255
    /\ data.error_message = "Unknown error"

\* C12: in every published snapshot, flow_detected is true exactly when
\* flow_lpm is present and at least the detection threshold (0.05 L/min).
C12_SnapshotDetectMatchesFlow ==
    \A i \in DOMAIN pushed :
        pushed[i].flow_detected
            <=> (pushed[i].flow_lpm # None /\ pushed[i].flow_lpm[1] >= 5)

\* C13: in every state of the device cache and in every published snapshot,
\* flow_detected is false whenever flow_lpm is absent.
C13_NoDetectWithoutFlow ==
    /\ (flow_lpm = None => ~flow_detected)
    /\ \A i \in DOMAIN pushed :
           pushed[i].flow_lpm = None => ~pushed[i].flow_detected

C13_Witness ==
    /\ last.op = "connect"
    /\ connected
    /\ flow_lpm = None
    /\ ~flow_detected
    /\ Len(pushed) = 1
    /\ pushed[1].flow_lpm = None
    /\ ~pushed[1].flow_detected

\* C14: connect() on a device whose transport session is already connected
\* creates no session, subscribes to nothing, reads nothing, publishes nothing
\* and leaves pump_on, flow_lpm, error_code, last_flow_ts, total_volume_l and
\* flow_detected unchanged.
C14_ConnectIdempotent ==
    [][(last'.op = "connect" /\ cli = "open")
          => /\ cli' = "open"
             /\ subs' = subs
             /\ pushed' = <<>>
             /\ pump_on' = pump_on
             /\ flow_lpm' = flow_lpm
             /\ error_code' = error_code
             /\ last_flow_ts' = last_flow_ts
             /\ total_volume_l' = total_volume_l
             /\ flow_detected' = flow_detected]_vars

\* connect() has returned on an open, subscribed session without publishing:
\* a fresh connect() that reaches the reads always publishes
C14_Witness ==
    /\ last.op = "connect"
    /\ cli = "open"
    /\ subs = {"flow", "error"}
    /\ connected
    /\ pushed = <<>>
    /\ flow_lpm # None

\* C15: connect() never propagates an exception: it returns normally after
\* any failure, and when session establishment itself failed (no open session
\* afterwards) connected is false on return.
C15_ConnectNeverRaises ==
    last.op = "connect"
        => /\ last.result = "ok"
           /\ (cli # "open" => ~connected)

C15_Witness ==
    /\ last.op = "connect"
    /\ last.result = "ok"
    /\ cli # "open"
    /\ ~connected

C17_DisconnectClearsConnected ==
    last.op = "disconnect" => (~connected /\ last.result = "ok")

\* disconnect() returned while the subscribed session is still open: the
\* transport disconnect raised
C17_Witness ==
    /\ last.op = "disconnect"
    /\ last.result = "ok"
    /\ cli = "open"
    /\ subs = {"flow", "error"}
    /\ ~connected

\* C18: turn_on/turn_off called while not connected attempts connect(); if
\* the device is connected afterwards the write is issued, and if it is still
\* not connected the command fails with the not-connected error, no write is
\* issued, nothing is published and the cached pump_on keeps its value.
C18_WriteWhileDisconnected ==
    [][(pc = "idle" /\ ~connected
          /\ last'.op \in {"turn_on", "turn_off", "write_begin"})
          => IF connected'
             THEN /\ last'.op = "write_begin"
                  /\ pc' \in {"write_on", "write_off"}
                  /\ cli' = "open"
             ELSE /\ last'.result = "raise"
                  /\ last'.data = <<>>
                  /\ pc' = "idle"
                  /\ pump_on' = pump_on
                  /\ pushed' = <<>>]_vars

\* turn_on() has failed with the not-connected error (no payload was written)
\* and the pump is still cached as off
C18_Witness ==
    /\ last.op = "turn_on"
    /\ last.result = "raise"
    /\ last.data = <<>>
    /\ pc = "idle"
    /\ ~connected
    /\ ~pump_on

C20_DisconnectCallbackKeepsValues ==
    [][last'.op = "on_disconnect"
          => /\ ~connected'
             /\ ~flow_detected'
             /\ total_volume_l' = total_volume_l
             /\ flow_lpm' = flow_lpm
             /\ error_code' = error_code
             /\ pump_on' = pump_on
             /\ last_flow_ts' = last_flow_ts
             /\ pushed' = <<[pump_on        |-> pump_on,
                             flow_lpm       |-> flow_lpm,
                             error_code     |-> error_code,
                             flow_detected  |-> FALSE,
                             total_volume_l |-> Round3(total_volume_l)]>>]_vars

C20_Witness ==
    /\ last.op = "on_disconnect"
    /\ ~connected
    /\ ~flow_detected
    /\ pump_on
    /\ flow_lpm = Some(25)
    /\ error_code = 3
    /\ Len(pushed) = 1
    /\ pushed[1].flow_lpm = Some(25)
    /\ pushed[1].pump_on

\* C21: after a disconnect followed by a successful connect() the snapshot
\* starts fresh: the accumulated total_volume_l is 0 in the cache and in the
\* snapshots that connect() publishes.
C21_ReconnectStartsFresh ==
    [][(last'.op = "connect" /\ cli = "closed" /\ cli' = "open" /\ connected')
          => /\ total_volume_l' = 0
             /\ \A i \in DOMAIN pushed' : pushed'[i].total_volume_l = 0]_vars

C23_PumpMatchesLastCommand ==
    (pc = "idle" /\ last.hist # NoHistory /\ last.hist[1].written # None)
        => pump_on = last.hist[1].written[1]

\* C30: each integration step (an accepted flow notification, a completed
\* turn_off) covers the time since the previous one: the interval it
\* integrates, from last_flow_ts to now, does not start before the previous
\* integration step, so no interval is integrated twice.
C30_NoIntervalIntegratedTwice ==
    [][(/\ \/ last'.op = "flow_notif" /\ Len(last'.data) \in {1, 2, 4}
           \/ last'.op = "turn_off" /\ last'.result = "ok"
        /\ last.hist # NoHistory
        /\ last.hist[1].sample_ts # None
        /\ last_flow_ts # None)
          => last_flow_ts[1] >= last.hist[1].sample_ts[1]]_vars

\* C22: every snapshot that reaches the observers as a result of a BLE event
\* has passed through the evaluator: it carries dry_run and error_message
\* next to the raw fields.
C22_DeliveredSnapshotEvaluated ==
    last.op = "async_set_updated_data"
        => {"pump_on", "flow_lpm", "error_code", "flow_detected", "dry_run",
            "error_message"} \subseteq DOMAIN data

\* C25: the volume added at an accepted flow notification or at turn_off is
\* max(0, elapsed) * flow_lpm / 60, an absent flow_lpm or timestamp adding
\* nothing: total_volume_l is unchanged for elapsed <= 0, and for a flow >= 0
\* the new total is at least what any shorter elapsed time would have given.
C25_IncrementClamped ==
    [][(\/ last'.op = "flow_notif" /\ Len(last'.data) \in {1, 2, 4}
        \/ last'.op = "turn_off" /\ last'.result = "ok")
          => LET rate    == IF last'.op = "flow_notif"
                            THEN flow_lpm' ELSE flow_lpm
                 r       == IF rate = None THEN 0 ELSE rate[1]
                 elapsed == IF last_flow_ts = None
                            THEN 0 ELSE clock - last_flow_ts[1]
             IN  /\ total_volume_l' = total_volume_l +
                        (IF last_flow_ts = None \/ elapsed <= 0
                         THEN 0 ELSE elapsed * r)
                 /\ (elapsed <= 0 => total_volume_l' = total_volume_l)
                 /\ (r >= 0 => \A e \in 0..elapsed :
                                  total_volume_l + e * r <= total_volume_l')]_vars

\* A flow notification of 0.05 L/min was accepted while the stored timestamp
\* lies after the current time, and nothing was added
C25_Witness ==
    /\ last.op = "flow_notif"
    /\ last.data = <<5, 0>>
    /\ flow_lpm = Some(5)
    /\ last_flow_ts # None
    /\ last_flow_ts[1] > clock
    /\ total_volume_l = 0

\* C26: at most one config entry is ever created for a device MAC address.
C26_OneEntryPerMac ==
    \A j, k \in DOMAIN entries : entries[j].mac = entries[k].mac => j = k

\* C27: the user step has three outcomes, determined by the number of
\* discovered devices that have no config entry yet: none aborts with
\* no_devices_found and creates nothing, one creates the entry for that MAC
\* without a form, more than one shows the selection form and creates nothing.
C27_UserStepOutcomes ==
    [][last'.op = "step_user"
          => LET visible == {last'.data[k] : k \in DOMAIN last'.data}
                 fresh   == {m \in visible :
                               \A k \in DOMAIN entries : entries[k].mac # m}
             IN  /\ (fresh = {}
                       => /\ last'.result = "abort:no_devices_found"
                          /\ entries' = entries)
                 /\ (Cardinality(fresh) = 1
                       => /\ last'.result = "create_entry"
                          /\ Len(entries') = Len(entries) + 1
                          /\ entries'[Len(entries')].mac \in fresh)
                 /\ (Cardinality(fresh) > 1
                       => /\ last'.result = "form:select_device"
                          /\ entries' = entries)]_vars

C31_NoPartialSnapshot ==
    /\ \A i \in DOMAIN pushed : pushed[i] = Payload
    /\ (last.op = "flow_notif" /\ Len(last.data) \in {1, 2, 4})
          => \A i \in DOMAIN pushed :
                pushed[i].flow_detected =
                    (pushed[i].flow_lpm # None /\ pushed[i].flow_lpm[1] >= 5)

\* C32: during connect() both start_notify calls come before the initial
\* reads, and no notification handler runs on the new session before the
\* initial reads of the three channels have seeded the cache.
C32_SeededBeforeNotifications ==
    [][/\ pc' \in {"connect_read_pump", "connect_read_flow",
                   "connect_read_error"}
             => (cli' = "open" => subs' = {"flow", "error"})
       /\ last'.op \in {"flow_notif", "error_notif"}
             => pc \notin {"connect_services", "connect_notify_flow",
                           "connect_notify_error", "connect_read_pump",
                           "connect_read_flow", "connect_read_error"}]_vars

\* C33: a publish never runs the observer inline: the step that pushes leaves
\* the coordinator's data as it is and appends its snapshots, in order, to the
\* loop's queue; the loop delivers the oldest queued snapshot first; and when
\* a delivery empties the queue the coordinator holds the snapshot published
\* last, which shows the cache as it is.
C33_PublishEnqueuesInOrder ==
    [][/\ pushed' # <<>>
             => /\ data' = data
                /\ loop_ready' = loop_ready \o pushed'
       /\ last'.op = "async_set_updated_data"
             => /\ loop_ready # <<>>
                /\ data' = loop_ready[1]
                /\ loop_ready' = Tail(loop_ready)
       /\ (last'.op = "async_set_updated_data" /\ loop_ready' = <<>>)
             => data' = Payload']_vars

\* A snapshot was delivered while a newer, different one is still queued
C33_Witness ==
    /\ last.op = "async_set_updated_data"
    /\ loop_ready # <<>>
    /\ data # loop_ready[1]
    /\ loop_ready[Len(loop_ready)] = Payload

\* C34: a connect() that establishes a new session and runs the initial reads
\* publishes exactly one snapshot, the cache after all the reads, whichever
\* of the reads succeed.
C34_ConnectPublishesOnce ==
    [][(last'.op = "connect" /\ cli # "open" /\ cli' = "open" /\ connected')
          => pushed' = <<Payload'>>]_vars

\* C35: for the same flow_lpm the flag the device computes,
\* (flow_lpm or 0.0) >= _flow_detect_thresh, equals the flag the evaluator
\* computes: every evaluator output carries the flow_detected that the device
\* gives to its flow_lpm.
C35_DetectAgrees ==
    IsEval => data.flow_detected = Detect(data.flow_lpm)

\* C36: whenever connected is true and no connect() is in progress, both
\* start_notify calls have been made on the current session: connected is
\* never true on a session that was never subscribed.
C36_ConnectedImpliesSubscribed ==
    (connected /\ pc \notin ConnectPositions)
        => (cli = "open" /\ subs = {"flow", "error"})

\* C37: whenever no call is in flight, a cached flow_lpm that is present comes
\* with a last_flow_ts that is set (so that the next accepted flow notification
\* has a time to integrate from).
C37_FlowImpliesTimestamp ==
    (pc = "idle" /\ flow_lpm # None) => last_flow_ts # None

\* C38 as stated: in every evaluator output the resolved code is the dry-run
\* code only if dry_run is true and the sensor-fault code only if flow_lpm is
\* absent.
C38_SyntheticCodesDistinct ==
    IsEval => /\ (data.error_code = 1 => data.dry_run)
              /\ (data.error_code = 2 => data.flow_lpm = None)

\* C38, amended: a non-zero code reported by the device is passed through as
\* it is, the values 1 and 2 included; when the device reports 0, the resolved
\* code is the dry-run code only if dry_run is true and the sensor-fault code
\* only if flow_lpm is absent.
C38_SyntheticCodesOrRaw ==
    IsEval => LET raw == last.data[1]
              IN  /\ (raw # 0 => data.error_code = raw)
                  /\ (raw = 0 => /\ (data.error_code = 1 => data.dry_run)
                                 /\ (data.error_code = 2
                                        => data.flow_lpm = None))

\* The device reported 1 while the pump was off: the output carries the
\* dry-run code and dry_run is false
C38_Witness ==
    /\ IsEval
    /\ last.data = <<1>>
    /\ data.error_code = 1
    /\ ~data.pump_on
    /\ ~data.dry_run
    /\ data.flow_lpm # None

====
